---------------------------- MODULE Spec2Model ----------------------------
(***************************************************************************)
(* A model of backend/app.py of open-atlas: the workspace resolver, the    *)
(* memoised dataset fetcher, and the search pipeline (sampling, query      *)
(* filter, distance annotation, sort, pagination).                         *)
(*                                                                         *)
(* Dataset ids are the integers 1..NumIds.  Python exceptions are modelled *)
(* as a "raised" flag on the value an operator returns.                    *)
(***************************************************************************)
EXTENDS Integers, Sequences, FiniteSets, TLC

VARIABLES
    rsv,       \* resolve_workspace_datasets: the position and locals of one call
    call,      \* a call of one helper of the search pipeline: its name and arguments
    ret,       \* what that call returned (fn = "none" while it has not returned)
    heap,      \* the collections fetch_ckan_dataset has returned: the objects that
               \* the cache and the running requests share, in order of creation
    cache,     \* the lru_cache of fetch_ckan_dataset: dataset id -> index into heap, 0 if none
    thr,       \* the request each server thread is handling, and its locals
    started,   \* the number of requests started so far
    workspaces \* the table "workspaces": its rows, and how many ids were made

serverVars == <<heap, cache, thr, started>>

vars == <<rsv, call, ret, heap, cache, thr, started, workspaces>>

NoCall == [fn |-> "none"]

(***************************************************************************)
(* The server at rest                                                      *)
(***************************************************************************)
NumThreads == 2      \* requests handled at the same time (app.run serves threaded)
NumDatasets == 2     \* datasets the searched workspaces resolve to: 1..NumDatasets
MaxRequests == 2     \* requests started in one run of the model

Threads == 1..NumThreads

Datasets == 1..NumDatasets

\* request.args.get('lat', type=float) and ('lon', type=float): None when absent
NoLocation == [given |-> FALSE, lat |-> 0, lon |-> 0]

\* dataset_metadata without an entry for dataset d
NoEntry == [present |-> FALSE, title |-> ""]

NoMetadata == [d \in Datasets |-> NoEntry]

NoResponse == [status |-> 0, results |-> <<>>, dataset_metadata |-> NoMetadata]

\* a thread that handles no request.  The locals a handler no longer reads
\* are reset to their initial values.
IdleThread ==
    [pc |-> "idle", query |-> <<>>, loc |-> NoLocation, dataset_ids |-> <<>>,
     dataset_metadata |-> NoMetadata, i |-> 0, fmt |-> "", all_features |-> <<>>,
     results |-> <<>>, resp |-> NoResponse]

\* a fresh process: nothing fetched, nothing cached, no request
ServerIdle ==
    /\ heap = <<>>
    /\ cache = [d \in Datasets |-> 0]
    /\ thr = [t \in Threads |-> IdleThread]
    /\ started = 0
    /\ workspaces = [rows |-> {}, made |-> 0]

(***************************************************************************)
(* Bounds of the model                                                     *)
(***************************************************************************)
NumIds == 3          \* dataset ids known to the catalog: 1..NumIds
MaxRefs == 1         \* group references, and tag references, of a workspace
MaxDirect == MaxRefs + 1   \* length of workspace.dataset_ids
MaxPkgs == MaxRefs + 1     \* packages listed by one group_show / package_search answer

Ids == 1..NumIds

RECURSIVE SeqsUpTo(_, _)
\* all sequences over S of length at most n
SeqsUpTo(S, n) ==
    IF n = 0 THEN {<<>>}
    ELSE LET shorter == SeqsUpTo(S, n - 1)
         IN  shorter \cup {Append(s, x) : s \in {t \in shorter : Len(t) = n - 1}, x \in S}

Range(s) == {s[i] : i \in 1..Len(s)}

NoDuplicates(s) == \A i, j \in 1..Len(s) : i # j => s[i] # s[j]

\* all orderings of a finite set: list(a_set) yields its elements once each, in
\* an order the program does not control
Orderings(S) ==
    {s \in [1..Cardinality(S) -> S] : \A i, j \in 1..Cardinality(S) : i # j => s[i] # s[j]}

(***************************************************************************)
(* WorkspaceResolver                                                       *)
(***************************************************************************)

\* What the catalog answers to a group_show or package_search request:
\*   net     "ok", or "error" when requests.get raises (timeout, connection)
\*   status  the HTTP status
\*   json    whether the body parses as a JSON object
\*   success the "success" member of the body
\*   hasIds  whether every listed package has an "id" member
\*   ids     the ids of the listed packages, in order
CatalogAnswers ==
    {[net |-> "error", status |-> 0, json |-> FALSE, success |-> FALSE,
      hasIds |-> TRUE, ids |-> <<>>]}
    \cup
    {[net |-> "ok", status |-> 500, json |-> TRUE, success |-> FALSE,
      hasIds |-> TRUE, ids |-> <<>>]}
    \cup
    {[net |-> "ok", status |-> 200, json |-> FALSE, success |-> FALSE,
      hasIds |-> TRUE, ids |-> <<>>]}
    \cup
    {[net |-> "ok", status |-> 200, json |-> TRUE, success |-> s,
      hasIds |-> h, ids |-> l] :
        s \in BOOLEAN, h \in BOOLEAN, l \in SeqsUpTo(Ids, MaxPkgs)}

\* the answer is a usable one: the request went through with a 2xx status and
\* a well-formed successful body
AnswerOk(resp) ==
    /\ resp.net = "ok"
    /\ resp.status \in 200..299
    /\ resp.json
    /\ resp.success
    /\ resp.hasIds

\* a lookup that lets its exception escape instead of returning []
get_datasets_raising(resp) ==
    IF resp.net = "ok" /\ resp.status \in 200..299 /\ resp.json
       /\ (resp.success => resp.hasIds)
    THEN [raised |-> FALSE, ids |-> IF resp.success THEN resp.ids ELSE <<>>]
    ELSE [raised |-> TRUE, ids |-> <<>>]

\* get_datasets_from_group: every exception of the try block is caught and
\* answered with []
get_datasets_from_group(resp) ==
    IF resp.net # "ok" THEN [raised |-> FALSE, ids |-> <<>>]           \* requests.get raises
    ELSE IF resp.status \notin 200..299 THEN [raised |-> FALSE, ids |-> <<>>] \* raise_for_status
    ELSE IF ~resp.json THEN [raised |-> FALSE, ids |-> <<>>]           \* response.json() raises
    ELSE IF resp.success
         THEN IF resp.hasIds THEN [raised |-> FALSE, ids |-> resp.ids]
              ELSE [raised |-> FALSE, ids |-> <<>>]                    \* pkg['id'] KeyError
         ELSE [raised |-> FALSE, ids |-> <<>>]

\* get_datasets_from_tag: the same shape, over package_search
get_datasets_from_tag(resp) ==
    IF resp.net # "ok" THEN [raised |-> FALSE, ids |-> <<>>]
    ELSE IF resp.status \notin 200..299 THEN [raised |-> FALSE, ids |-> <<>>]
    ELSE IF ~resp.json THEN [raised |-> FALSE, ids |-> <<>>]
    ELSE IF resp.success
         THEN IF resp.hasIds THEN [raised |-> FALSE, ids |-> resp.ids]
              ELSE [raised |-> FALSE, ids |-> <<>>]
         ELSE [raised |-> FALSE, ids |-> <<>>]

\* a workspace as get_workspace_by_id returns it (the selector lists only)
Workspaces ==
    {[dataset_ids |-> d, groups |-> [i \in 1..g |-> i], tags |-> [i \in 1..t |-> i]] :
        d \in SeqsUpTo(Ids, MaxDirect), g \in 0..MaxRefs, t \in 0..MaxRefs}

\* rsv while no call is running or after it ended:
\*   pc        "direct" | "groups" | "tags" | "return" | "done" | "raised"
\*   gi, ti    the next group / tag of the two for-loops
\*   all_dataset_ids  the set being built
\*   result    the returned list
\*   returned  the ids the catalog's usable answers listed (history)
\*   failed    whether some lookup's answer was not usable (history)
\*   lastFailed, lastCount  the last lookup: whether its answer was unusable
\*             and the number of datasets it is printed to have added
\*   looked    whether a lookup has been made
ResolveInit ==
    /\ ServerIdle
    /\ call = NoCall
    /\ ret = NoCall
    /\ rsv \in {[pc |-> "direct", workspace |-> w, gi |-> 1, ti |-> 1,
              all_dataset_ids |-> {}, result |-> <<>>, returned |-> {},
              failed |-> FALSE, lastFailed |-> FALSE, lastCount |-> 0,
              looked |-> FALSE] : w \in Workspaces}

\* all_dataset_ids.update(workspace.get('dataset_ids', []))
ResolveDirect ==
    /\ rsv.pc = "direct"
    /\ UNCHANGED <<call, ret, serverVars, workspaces>>
    /\ rsv' = [rsv EXCEPT !.pc = "groups",
                          !.all_dataset_ids = Range(rsv.workspace.dataset_ids)]

\* one iteration of the loop over workspace['groups']
ResolveGroup ==
    /\ rsv.pc = "groups"
    /\ UNCHANGED <<call, ret, serverVars, workspaces>>
    /\ rsv.gi <= Len(rsv.workspace.groups)
    /\ \E resp \in CatalogAnswers :
        LET got == get_datasets_from_group(resp)
        IN  rsv' = IF got.raised
                   THEN [rsv EXCEPT !.pc = "raised", !.looked = TRUE,
                                    !.failed = TRUE, !.lastFailed = TRUE]
                   ELSE [rsv EXCEPT !.gi = @ + 1,
                                    !.all_dataset_ids = @ \cup Range(got.ids),
                                    !.returned = IF AnswerOk(resp) THEN @ \cup Range(resp.ids) ELSE @,
                                    !.failed = @ \/ ~AnswerOk(resp),
                                    !.lastFailed = ~AnswerOk(resp),
                                    !.lastCount = Len(got.ids),
                                    !.looked = TRUE]

ResolveGroupsDone ==
    /\ rsv.pc = "groups"
    /\ UNCHANGED <<call, ret, serverVars, workspaces>>
    /\ rsv.gi > Len(rsv.workspace.groups)
    /\ rsv' = [rsv EXCEPT !.pc = "tags"]

\* one iteration of the loop over workspace['tags']
ResolveTag ==
    /\ rsv.pc = "tags"
    /\ UNCHANGED <<call, ret, serverVars, workspaces>>
    /\ rsv.ti <= Len(rsv.workspace.tags)
    /\ \E resp \in CatalogAnswers :
        LET got == get_datasets_from_tag(resp)
        IN  rsv' = IF got.raised
                   THEN [rsv EXCEPT !.pc = "raised", !.looked = TRUE,
                                    !.failed = TRUE, !.lastFailed = TRUE]
                   ELSE [rsv EXCEPT !.ti = @ + 1,
                                    !.all_dataset_ids = @ \cup Range(got.ids),
                                    !.returned = IF AnswerOk(resp) THEN @ \cup Range(resp.ids) ELSE @,
                                    !.failed = @ \/ ~AnswerOk(resp),
                                    !.lastFailed = ~AnswerOk(resp),
                                    !.lastCount = Len(got.ids),
                                    !.looked = TRUE]

ResolveTagsDone ==
    /\ rsv.pc = "tags"
    /\ UNCHANGED <<call, ret, serverVars, workspaces>>
    /\ rsv.ti > Len(rsv.workspace.tags)
    /\ rsv' = [rsv EXCEPT !.pc = "return"]

\* a return that keeps every id as often as a selector lists it
ResolveReturnList ==
    /\ rsv.pc = "return"
    /\ UNCHANGED <<call, ret, serverVars, workspaces>>
    /\ \E l \in Orderings(rsv.all_dataset_ids) :
        rsv' = [rsv EXCEPT !.pc = "done", !.result = rsv.workspace.dataset_ids \o l]

\* return list(all_dataset_ids)
ResolveReturn ==
    /\ rsv.pc = "return"
    /\ UNCHANGED <<call, ret, serverVars, workspaces>>
    /\ \E l \in Orderings(rsv.all_dataset_ids) :
        rsv' = [rsv EXCEPT !.pc = "done", !.result = l]

ResolveNext ==
    \/ ResolveDirect
    \/ ResolveGroup
    \/ ResolveGroupsDone
    \/ ResolveTag
    \/ ResolveTagsDone
    \/ ResolveReturn

SpecResolve == ResolveInit /\ [][ResolveNext]_vars

(***************************************************************************)
(* Per-dataset sampling (search_workspace, "Limit features per dataset")   *)
(*                                                                         *)
(* step = len(features) / max_per_dataset is a Python float (an IEEE 754   *)
(* double) and int(i * step) truncates the rounded product.  A double      *)
(* x >= 1 is kept here as its integer part and the bits of its fraction,   *)
(* Mantissa significant bits in all, rounded to nearest, ties to even.     *)
(***************************************************************************)
Mantissa == 53

MaxN == 30           \* features of the sampled dataset

RECURSIVE BitLen(_)
\* the number of bits of x >= 0
BitLen(x) == IF x = 0 THEN 0 ELSE 1 + BitLen(x \div 2)

RECURSIVE FracBits(_, _, _, _)
\* cnt more bits of the binary fraction of r / k (0 <= r < k), after acc
FracBits(r, k, cnt, acc) ==
    IF cnt = 0 THEN [bits |-> acc, rem |-> r]
    ELSE IF 2 * r >= k THEN FracBits(2 * r - k, k, cnt - 1, Append(acc, 1))
         ELSE FracBits(2 * r, k, cnt - 1, Append(acc, 0))

RECURSIVE IncFrom(_, _)
\* bits[1..j] plus one unit in the last place: the bits and the carry out
IncFrom(bits, j) ==
    IF j = 0 THEN [bits |-> bits, carry |-> 1]
    ELSE IF bits[j] = 1 THEN IncFrom([bits EXCEPT ![j] = 0], j - 1)
         ELSE [bits |-> [bits EXCEPT ![j] = 1], carry |-> 0]

\* the double n / k, for n >= k >= 1
FloatDiv(n, k) ==
    LET I  == n \div k
        nf == Mantissa - BitLen(I)
        fb == FracBits(n % k, k, nf, <<>>)
        lsb == IF nf > 0 THEN fb.bits[nf] ELSE I % 2
        up == 2 * fb.rem > k \/ (2 * fb.rem = k /\ lsb = 1)
        inc == IncFrom(fb.bits, nf)
    IN  IF up THEN [int |-> I + inc.carry, frac |-> inc.bits]
        ELSE [int |-> I, frac |-> fb.bits]

RECURSIVE MulFrom(_, _, _, _)
\* the exact product i * 0.bits, from bit j down: the fraction bits and the
\* integer carried out
MulFrom(bits, i, j, carry) ==
    IF j = 0 THEN [bits |-> bits, carry |-> carry]
    ELSE LET t == bits[j] * i + carry
         IN  MulFrom([bits EXCEPT ![j] = t % 2], i, j - 1, t \div 2)

\* int(i * q) for an int i >= 0 and a double q >= 1: the product is rounded to
\* Mantissa bits, then truncated
FloatMulTrunc(i, q) ==
    LET m == MulFrom(q.frac, i, Len(q.frac), 0)
        J == i * q.int + m.carry
        keep == Mantissa - BitLen(J)
        G == m.bits
        guard == G[keep + 1]
        sticky == \E j \in (keep + 2)..Len(G) : G[j] = 1
        lsb == IF keep > 0 THEN G[keep] ELSE J % 2
        up == guard = 1 /\ (sticky \/ lsb = 1)
    IN  IF J = 0 THEN 0
        ELSE IF Len(G) <= keep THEN J
        ELSE IF up /\ (\A j \in 1..keep : G[j] = 1) THEN J + 1
        ELSE J

\* a sampling that keeps the first max_per_dataset features
SamplePrefix(features, max_per_dataset) ==
    IF Len(features) > max_per_dataset
    THEN IF max_per_dataset = 0 THEN [raised |-> TRUE, list |-> <<>>]
         ELSE IF max_per_dataset < 0 THEN [raised |-> FALSE, list |-> <<>>]
         ELSE [raised |-> FALSE, list |-> SubSeq(features, 1, max_per_dataset)]
    ELSE [raised |-> FALSE, list |-> features]

\* if len(features) > max_per_dataset:
\*     step = len(features) / max_per_dataset
\*     features = [features[int(i * step)] for i in range(max_per_dataset)]
\* (Python lists count from 0, sequences from 1)
Sample(features, max_per_dataset) ==
    IF Len(features) > max_per_dataset
    THEN IF max_per_dataset = 0 THEN [raised |-> TRUE, list |-> <<>>]   \* ZeroDivisionError
         ELSE IF max_per_dataset < 0 THEN [raised |-> FALSE, list |-> <<>>] \* range() is empty
         ELSE LET step == FloatDiv(Len(features), max_per_dataset)
              IN  [raised |-> FALSE,
                   list |-> [i \in 1..max_per_dataset |->
                                features[FloatMulTrunc(i - 1, step) + 1]]]
    ELSE [raised |-> FALSE, list |-> features]

\* the inputs: a dataset of n features, the feature at source index i - 1
\* being i, and a max_per_dataset
SampleInit ==
    /\ ServerIdle
    /\ rsv = NoCall
    /\ ret = NoCall
    /\ call \in {[fn |-> "sample", features |-> [i \in 1..n |-> i], max_per_dataset |-> k] :
                    n \in 0..MaxN, k \in (-1)..MaxN}

SampleCall ==
    /\ call.fn = "sample"
    /\ ret.fn = "none"
    /\ ret' = [fn |-> "sample"] @@ Sample(call.features, call.max_per_dataset)
    /\ UNCHANGED <<rsv, call, serverVars, workspaces>>

SampleNext == SampleCall

SpecSample == SampleInit /\ [][SampleNext]_vars


(***************************************************************************)
(* Pagination (search_workspace, "Apply pagination")                       *)
(***************************************************************************)
LimitCap == 2000     \* limit = min(limit, 2000)

MaxTotal == 4        \* results of the search that is paginated

Min(a, b) == IF a < b THEN a ELSE b

Max(a, b) == IF a > b THEN a ELSE b

\* a slice bound as Python normalises it for a list of n elements: a negative
\* bound counts from the end, and every bound is clamped to 0..n
SliceBound(x, n) == IF x < 0 THEN Max(x + n, 0) ELSE Min(x, n)

\* lst[start:stop]
Slice(lst, start, stop) ==
    SubSeq(lst, SliceBound(start, Len(lst)) + 1, SliceBound(stop, Len(lst)))

\* a pagination that slices results[offset:limit]
PaginateToLimit(results, offset, limit_arg) ==
    LET limit == Min(limit_arg, LimitCap)
        paginated_results == Slice(results, offset, limit)
    IN  [total |-> Len(results), count |-> Len(paginated_results),
         offset |-> offset, limit |-> limit,
         has_more |-> (offset + limit) < Len(results),
         results |-> paginated_results]

\* limit = min(limit, 2000); total_results = len(results);
\* paginated_results = results[offset:offset + limit]; and the members
\* total, count, offset, limit, has_more, results of the response
Paginate(results, offset, limit_arg) ==
    LET limit == Min(limit_arg, LimitCap)
        paginated_results == Slice(results, offset, offset + limit)
    IN  [total |-> Len(results), count |-> Len(paginated_results),
         offset |-> offset, limit |-> limit,
         has_more |-> (offset + limit) < Len(results),
         results |-> paginated_results]

\* the inputs: the filtered and sorted results (the result at index i - 1
\* being i), and the offset and limit arguments of the request
PageInit ==
    /\ ServerIdle
    /\ rsv = NoCall
    /\ ret = NoCall
    /\ call \in {[fn |-> "page", results |-> [i \in 1..n |-> i], offset |-> o, limit |-> l] :
                    n \in (0..MaxTotal) \cup {LimitCap + 1},
                    o \in (-(MaxTotal + 1))..(MaxTotal + 1),
                    l \in ((-(MaxTotal + 1))..(MaxTotal + 1)) \cup {LimitCap, LimitCap + 1}}

PageCall ==
    /\ call.fn = "page"
    /\ ret.fn = "none"
    /\ ret' = [fn |-> "page"] @@ Paginate(call.results, call.offset, call.limit)
    /\ UNCHANGED <<rsv, call, serverVars, workspaces>>

PageNext == PageCall

SpecPage == PageInit /\ [][PageNext]_vars

(***************************************************************************)
(* search_features                                                         *)
(*                                                                         *)
(* A string is a sequence of characters.  A property value is a string, a  *)
(* number or null; the properties of a feature are a dict (its items in    *)
(* insertion order), null, or absent.                                      *)
(***************************************************************************)
MaxQueryLen == 2     \* characters of a query
MaxFeatures == 2     \* features handed to search_features

Alphabet == {"a", "B", " ", "1"}

\* str.lower() of one character
LowerChar(c) ==
    CASE c = "A" -> "a" [] c = "B" -> "b" [] c = "L" -> "l" [] c = "N" -> "n"
      [] c = "O" -> "o" [] c = "T" -> "t" [] OTHER -> c

\* str.lower()
Lower(s) == [i \in 1..Len(s) |-> LowerChar(s[i])]

IsSpace(c) == c = " "

RECURSIVE LStrip(_)
LStrip(s) == IF s # <<>> /\ IsSpace(Head(s)) THEN LStrip(Tail(s)) ELSE s

RECURSIVE RStrip(_)
RStrip(s) ==
    IF s # <<>> /\ IsSpace(s[Len(s)]) THEN RStrip(SubSeq(s, 1, Len(s) - 1)) ELSE s

\* str.strip()
Strip(s) == RStrip(LStrip(s))

DigitChar(d) == CASE d = 0 -> "0" [] d = 1 -> "1" [] d = 2 -> "2" [] d = 3 -> "3"
                  [] d = 4 -> "4" [] d = 5 -> "5" [] d = 6 -> "6" [] d = 7 -> "7"
                  [] d = 8 -> "8" [] d = 9 -> "9"

RECURSIVE Digits(_)
\* str(n) of an int n >= 0
Digits(n) == IF n < 10 THEN <<DigitChar(n)>> ELSE Append(Digits(n \div 10), DigitChar(n % 10))

StrValue(s) == [kind |-> "str", s |-> s, n |-> 0]
NumValue(n) == [kind |-> "num", s |-> <<>>, n |-> n]
NullValue == [kind |-> "null", s |-> <<>>, n |-> 0]

\* str(v)
Str(v) == IF v.kind = "num" THEN Digits(v.n) ELSE v.s

RECURSIVE JoinSpace(_)
\* ' '.join(parts)
JoinSpace(parts) ==
    IF parts = <<>> THEN <<>>
    ELSE IF Len(parts) = 1 THEN parts[1]
    ELSE parts[1] \o <<" ">> \o JoinSpace(Tail(parts))

RECURSIVE FindFrom(_, _, _)
\* needle in haystack, scanning from position i
FindFrom(needle, haystack, i) ==
    IF i + Len(needle) - 1 > Len(haystack) THEN FALSE
    ELSE IF SubSeq(haystack, i, i + Len(needle) - 1) = needle THEN TRUE
    ELSE FindFrom(needle, haystack, i + 1)

RECURSIVE NonNullValues(_)
\* properties.values() without the None ones
NonNullValues(items) ==
    IF items = <<>> THEN <<>>
    ELSE IF Head(items).val.kind = "null" THEN NonNullValues(Tail(items))
    ELSE <<Head(items).val>> \o NonNullValues(Tail(items))

\* ' '.join(str(v).lower() for v in properties.values() if v is not None)
SearchableText(items) ==
    LET vals == NonNullValues(items)
    IN  JoinSpace([i \in 1..Len(vals) |-> Lower(Str(vals[i]))])

\* the dict feature.get('properties', {}) yields
PropertyItems(feature) ==
    IF feature.properties.kind = "absent" THEN <<>> ELSE feature.properties.items

RECURSIVE SearchLoopCased(_, _, _)
\* the loop without the lower-casing of the values
SearchLoopCased(features, query_lower, results) ==
    IF features = <<>> THEN [raised |-> FALSE, list |-> results]
    ELSE IF Head(features).properties.kind = "null" THEN [raised |-> TRUE, list |-> <<>>]
    ELSE LET vals == NonNullValues(PropertyItems(Head(features)))
             text == JoinSpace([i \in 1..Len(vals) |-> Str(vals[i])])
         IN  SearchLoopCased(Tail(features), query_lower,
                 IF FindFrom(query_lower, text, 1)
                 THEN Append(results, Head(features)) ELSE results)

\* a search that compares the values as they are written
search_features_cased(features, query) ==
    IF query = <<>> \/ Strip(query) = <<>> THEN [raised |-> FALSE, list |-> features]
    ELSE SearchLoopCased(features, Strip(Lower(query)), <<>>)

RECURSIVE SearchLoop(_, _, _)
\* for feature in features: ... results.append(feature)
\* properties.values() raises AttributeError when "properties" is null
SearchLoop(features, query_lower, results) ==
    IF features = <<>> THEN [raised |-> FALSE, list |-> results]
    ELSE IF Head(features).properties.kind = "null" THEN [raised |-> TRUE, list |-> <<>>]
    ELSE SearchLoop(Tail(features), query_lower,
             IF FindFrom(query_lower, SearchableText(PropertyItems(Head(features))), 1)
             THEN Append(results, Head(features)) ELSE results)

\* search_features(features, query)
search_features(features, query) ==
    IF query = <<>> \/ Strip(query) = <<>> THEN [raised |-> FALSE, list |-> features]
    ELSE SearchLoop(features, Strip(Lower(query)), <<>>)

\* the property values and property maps the inputs are drawn from
ValuePool == {StrValue(<<"A", "b">>), NumValue(1), NullValue}

PropertyPool ==
    {[kind |-> "absent", items |-> <<>>], [kind |-> "null", items |-> <<>>]}
    \cup {[kind |-> "dict", items |-> <<>>]}
    \cup {[kind |-> "dict", items |-> <<[key |-> <<"a">>, val |-> v]>>] : v \in ValuePool}
    \cup {[kind |-> "dict", items |-> <<[key |-> <<"a">>, val |-> v],
                                        [key |-> <<"b">>, val |-> w]>>] :
             v \in ValuePool, w \in ValuePool}

\* the inputs: the merged features of the datasets
FilterInit ==
    /\ ServerIdle
    /\ rsv = NoCall
    /\ ret = NoCall
    /\ call \in {[fn |-> "search_features", features |-> fs] :
                    fs \in SeqsUpTo({[properties |-> p] : p \in PropertyPool}, MaxFeatures)}

\* results = search_features(all_features, query), for a query of the request
FilterCall ==
    /\ call.fn = "search_features"
    /\ ret.fn = "none"
    /\ \E query \in SeqsUpTo(Alphabet, MaxQueryLen) :
          ret' = [fn |-> "search_features", query |-> query]
                 @@ search_features(call.features, query)
    /\ UNCHANGED <<rsv, call, serverVars, workspaces>>

FilterNext == FilterCall

SpecFilter == FilterInit /\ [][FilterNext]_vars

(***************************************************************************)
(* fetch_ckan_dataset                                                      *)
(***************************************************************************)
EmptyCollection == [kind |-> "fc", features |-> <<>>]

Point(lon, lat) == [kind |-> "Point", coordinates |-> <<lon, lat>>]

NoGeometry == [kind |-> "none", coordinates |-> <<>>]

NoDistance == -1     \* the feature has no "distance_km" key

\* a feature as the upstream body holds it: no "dataset_id" (0), no "distance_km"
Feature(fid, properties, geometry) ==
    [fid |-> fid, properties |-> properties, geometry |-> geometry,
     dataset_id |-> 0, distance_km |-> NoDistance]

Dict(items) == [kind |-> "dict", items |-> items]

FarPark == Feature(1, Dict(<<[key |-> <<"a">>, val |-> StrValue(<<"A", "b">>)]>>), Point(11, 50))
NearShop == Feature(2, Dict(<<[key |-> <<"a">>, val |-> NumValue(1)]>>), Point(11, 48))
AreaPark == Feature(3, Dict(<<[key |-> <<"a">>, val |-> StrValue(<<"A", "b">>)]>>), NoGeometry)
NullProps == Feature(4, [kind |-> "null", items |-> <<>>], Point(11, 49))
NoCoords == Feature(5, Dict(<<>>), [kind |-> "Point", coordinates |-> <<>>])

\* What the catalog answers to package_show in fetch_ckan_dataset; resources
\* are [format, url], url being whether the resource has one
MetadataAnswers ==
    {[net |-> "error", status |-> 0, json |-> FALSE, success |-> FALSE, resources |-> <<>>],
     [net |-> "ok", status |-> 500, json |-> TRUE, success |-> FALSE, resources |-> <<>>],
     [net |-> "ok", status |-> 200, json |-> FALSE, success |-> FALSE, resources |-> <<>>],
     [net |-> "ok", status |-> 200, json |-> TRUE, success |-> FALSE, resources |-> <<>>]}
    \cup
    {[net |-> "ok", status |-> 200, json |-> TRUE, success |-> TRUE, resources |-> r] :
        r \in {<<>>,
               <<[format |-> "PDF", url |-> TRUE]>>,
               <<[format |-> "GeoJSON", url |-> FALSE]>>,
               <<[format |-> "CSV", url |-> TRUE], [format |-> "GeoJSON", url |-> TRUE]>>,
               <<[format |-> "PDF", url |-> TRUE], [format |-> "csv", url |-> TRUE]>>}}

\* What the download of the resource answers.  body.kind is
\*   "fc"      a JSON object with a "features" list
\*   "object"  a JSON object without "features"
\*   "array"   a JSON array
\*   "csv"     CSV text, body.features being the point features of its rows
\*   "garbage" text that is neither JSON nor CSV with coordinate columns
DownloadAnswers ==
    {[net |-> "error", status |-> 0, body |-> [kind |-> "garbage", features |-> <<>>]],
     [net |-> "ok", status |-> 404, body |-> [kind |-> "garbage", features |-> <<>>]],
     [net |-> "ok", status |-> 200, body |-> [kind |-> "garbage", features |-> <<>>]],
     [net |-> "ok", status |-> 200, body |-> [kind |-> "array", features |-> <<>>]],
     [net |-> "ok", status |-> 200, body |-> [kind |-> "object", features |-> <<>>]],
     [net |-> "ok", status |-> 200, body |-> [kind |-> "csv", features |-> <<NearShop>>]],
     [net |-> "ok", status |-> 200,
      body |-> [kind |-> "fc", features |-> <<AreaPark, FarPark, NearShop>>]],
     [net |-> "ok", status |-> 200,
      body |-> [kind |-> "fc", features |-> <<NullProps, NoCoords>>]]}

\* resource.get('format', '').lower()
LowerFormat(format) ==
    CASE format = "GeoJSON" -> "geojson"
      [] format = "GEOJSON" -> "geojson"
      [] format = "JSON" -> "json"
      [] format = "CSV" -> "csv"
      [] format = "PDF" -> "pdf"
      [] OTHER -> format

RECURSIVE FirstWithFormat(_, _)
\* the first resource of the list with this format; 0 if none
FirstWithFormat(resources, fmt) ==
    IF resources = <<>> THEN 0
    ELSE IF LowerFormat(Head(resources).format) = fmt THEN 1
    ELSE LET rest == FirstWithFormat(Tail(resources), fmt)
         IN  IF rest = 0 THEN 0 ELSE rest + 1

format_priority == <<"geojson", "json", "csv">>

RECURSIVE SelectFirstAccepted(_, _)
\* the selection that takes the first resource of any of the formats
SelectFirstAccepted(resources, p) ==
    IF p > Len(resources) THEN [index |-> 0, fmt |-> ""]
    ELSE IF \E q \in 1..Len(format_priority) :
                LowerFormat(resources[p].format) = format_priority[q]
         THEN [index |-> p, fmt |-> LowerFormat(resources[p].format)]
    ELSE SelectFirstAccepted(resources, p + 1)

RECURSIVE SelectResource(_, _)
\* for fmt in format_priority: for resource in resources: ... break
SelectResource(resources, p) ==
    IF p > Len(format_priority) THEN [index |-> 0, fmt |-> ""]
    ELSE IF FirstWithFormat(resources, format_priority[p]) # 0
         THEN [index |-> FirstWithFormat(resources, format_priority[p]),
               fmt |-> format_priority[p]]
    ELSE SelectResource(resources, p + 1)

\* fetch_ckan_dataset up to the download: either it has returned (done, with
\* the value), or it goes on to download a resource of format fmt
AfterMetadata(meta) ==
    LET empty == [done |-> TRUE, value |-> EmptyCollection, fmt |-> "", index |-> 0]
        sel == SelectResource(meta.resources, 1)
    IN  IF meta.net # "ok" THEN empty                  \* RequestException
        ELSE IF meta.status \notin 200..299 THEN empty \* raise_for_status
        ELSE IF ~meta.json THEN empty                  \* JSONDecodeError
        ELSE IF ~meta.success THEN empty
        ELSE IF sel.index = 0 THEN empty               \* no GeoJSON/JSON/CSV resource
        ELSE IF ~meta.resources[sel.index].url THEN [empty EXCEPT !.index = sel.index]
        ELSE [done |-> FALSE, value |-> EmptyCollection, fmt |-> sel.fmt, index |-> sel.index]

\* csv_to_geojson(data_response.text): a collection of the point features of
\* the rows, none when the text has no coordinate columns
CsvCollection(body) ==
    IF body.kind = "csv" THEN [kind |-> "fc", features |-> body.features]
    ELSE EmptyCollection

\* fetch_ckan_dataset from the download on: what it returns
AfterDownload(fmt, dl) ==
    IF dl.net # "ok" THEN EmptyCollection                  \* RequestException
    ELSE IF dl.status \notin 200..299 THEN EmptyCollection \* raise_for_status
    ELSE IF fmt = "csv" THEN CsvCollection(dl.body)
    ELSE IF dl.body.kind \in {"garbage", "csv"} THEN EmptyCollection  \* JSONDecodeError
    ELSE dl.body                                           \* data_response.json(), as it is

(***************************************************************************)
(* fetch_ckan_dataset as one call, without its cache                       *)
(***************************************************************************)
\* what the call returns for these two answers of the upstream; every
\* exception raised inside it is caught by its "except Exception".  resource
\* is the index of the resource it selected (0 if none), downloaded whether
\* it sent the download request
fetch_ckan_dataset(meta, dl) ==
    IF AfterMetadata(meta).done
    THEN [raised |-> FALSE, downloaded |-> FALSE, resource |-> AfterMetadata(meta).index,
          value |-> AfterMetadata(meta).value]
    ELSE [raised |-> FALSE, downloaded |-> TRUE, resource |-> AfterMetadata(meta).index,
          value |-> AfterDownload(AfterMetadata(meta).fmt, dl)]

MaxResources == 3     \* the resources of a package

\* the resource lists of the packages: every format in every position, with
\* and without a URL
ResourceLists ==
    SeqsUpTo([format : {"GEOJSON", "json", "CSV", "PDF"}, url : BOOLEAN], MaxResources)

\* the package_show answers of a fetch
FetchMetadataAnswers ==
    MetadataAnswers \cup
    {[net |-> "ok", status |-> 200, json |-> TRUE, success |-> TRUE, resources |-> r] :
        r \in ResourceLists}

FetchInit ==
    /\ ServerIdle
    /\ rsv = NoCall
    /\ ret = NoCall
    /\ call \in {[fn |-> "fetch", meta |-> meta, dl |-> dl] :
                    meta \in FetchMetadataAnswers, dl \in DownloadAnswers}

FetchCall ==
    /\ call.fn = "fetch"
    /\ ret.fn = "none"
    /\ ret' = [fn |-> "fetch"] @@ fetch_ckan_dataset(call.meta, call.dl)
    /\ UNCHANGED <<rsv, call, serverVars, workspaces>>

FetchNext == FetchCall

SpecFetch == FetchInit /\ [][FetchNext]_vars

\* the package_show answers of the server model: all but those that select a
\* CSV resource (none of the server model's downloads is CSV text)
ServerMetadata == {meta \in MetadataAnswers : AfterMetadata(meta).fmt # "csv"}

\* the download answers of the server model: a failure, a body that is no
\* feature collection, and two feature collections
ServerDownloads ==
    {dl \in DownloadAnswers :
        \/ dl.net = "error"
        \/ dl.status = 200 /\ dl.body.kind \in {"array", "fc"}}

(***************************************************************************)
(* search_workspace                                                        *)
(***************************************************************************)
DefaultLimit == 500
DefaultOffset == 0
DefaultMaxPerDataset == 200
MaxPerDatasetCap == 500
Infinity == 1000000000   \* float('inf'), above every distance

\* 100 * round(R * c, 2) of calculate_distance for two points of one meridian
\* (lon1 = lon2) with whole latitudes between 0 and 60: there c is the
\* latitude difference in radians, and 6371 * pi / 180 = 111.19493 km a degree
MilliCentiKmPerDegree == 11119493

calculate_distance(lat1, lon1, lat2, lon2) ==
    LET dlat == IF lat2 >= lat1 THEN lat2 - lat1 ELSE lat1 - lat2
    IN  (MilliCentiKmPerDegree * dlat + 500) \div 1000

\* "if lat and lon": None and 0.0 are both false
LocationIsTrue(loc) == loc.given /\ loc.lat # 0 /\ loc.lon # 0

\* the feature object a reference <<collection, position>> points to
Deref(h, ref) == h[ref[1]].features[ref[2]]

RECURSIVE AnnotateFrom(_, _, _, _)
\* for feature in results: ... feature['distance_km'] = round(distance, 2),
\* from results[k] on.  The input features have geographic coordinates; the
\* projected ones (coords[0] > 180) are not part of the model.
AnnotateFrom(results, k, h, loc) ==
    IF k > Len(results) THEN [raised |-> FALSE, heap |-> h]
    ELSE LET f == Deref(h, results[k])
             coords == f.geometry.coordinates
         IN  IF f.geometry.kind # "Point" THEN AnnotateFrom(results, k + 1, h, loc)
             ELSE IF Len(coords) # 2 THEN [raised |-> TRUE, heap |-> h]  \* IndexError, ValueError
             ELSE IF coords[2] # 0 /\ coords[1] # 0        \* if feature_lat and feature_lon
                  THEN AnnotateFrom(results, k + 1,
                          [h EXCEPT ![results[k][1]].features[results[k][2]].distance_km =
                               calculate_distance(loc.lat, loc.lon, coords[2], coords[1])],
                          loc)
             ELSE AnnotateFrom(results, k + 1, h, loc)

\* key=lambda x: x.get('distance_km', float('inf'))
SortKey(h, ref) ==
    IF Deref(h, ref).distance_km = NoDistance THEN Infinity ELSE Deref(h, ref).distance_km

RECURSIVE InsertByKey(_, _, _)
\* x put into a sorted list behind every element whose key is not greater
InsertByKey(sortedRefs, x, h) ==
    IF sortedRefs = <<>> THEN <<x>>
    ELSE IF SortKey(h, sortedRefs[Len(sortedRefs)]) <= SortKey(h, x) THEN Append(sortedRefs, x)
    ELSE Append(InsertByKey(SubSeq(sortedRefs, 1, Len(sortedRefs) - 1), x, h),
                sortedRefs[Len(sortedRefs)])

RECURSIVE SortedByDistance(_, _)
\* sorted(results, key=...), a stable sort
SortedByDistance(results, h) ==
    IF results = <<>> THEN <<>>
    ELSE InsertByKey(SortedByDistance(SubSeq(results, 1, Len(results) - 1), h),
                     results[Len(results)], h)

\* the body of the loop "for dataset_id in dataset_ids" once fetch_ckan_dataset
\* has returned the collection heap[o]: the thread's locals and the heap after it
LoopBody(th, h, o) ==
    LET d == th.dataset_ids[th.i]
        obj == h[o]
        \* geojson_data.get('features', []): an array has no get (AttributeError)
        n == IF obj.kind = "fc" THEN Len(obj.features) ELSE 0
        s == Sample([k \in 1..n |-> <<o, k>>], Min(DefaultMaxPerDataset, MaxPerDatasetCap))
    IN  IF obj.kind = "array" \/ s.raised
        THEN [th |-> [th EXCEPT !.i = @ + 1], heap |-> h]   \* except Exception: print
        ELSE [th |-> [th EXCEPT !.i = @ + 1, !.all_features = @ \o s.list],
              heap |-> [h EXCEPT ![o].features =
                           [k \in 1..n |-> IF <<o, k>> \in Range(s.list)
                                           THEN [@[k] EXCEPT !.dataset_id = d]
                                           ELSE @[k]]]]

\* What the catalog answers to the package_show request of the title loop;
\* title is whether the package has a "title"
TitleAnswers ==
    {[net |-> "error", status |-> 0, json |-> FALSE, success |-> FALSE, title |-> FALSE],
     [net |-> "ok", status |-> 404, json |-> TRUE, success |-> FALSE, title |-> FALSE],
     [net |-> "ok", status |-> 200, json |-> FALSE, success |-> FALSE, title |-> FALSE],
     [net |-> "ok", status |-> 200, json |-> TRUE, success |-> FALSE, title |-> FALSE],
     [net |-> "ok", status |-> 200, json |-> TRUE, success |-> TRUE, title |-> FALSE],
     [net |-> "ok", status |-> 200, json |-> TRUE, success |-> TRUE, title |-> TRUE]}

\* {'title': dataset_id, 'name': ''} and {'title': <the package's title>, ...}
IdAsTitle == [present |-> TRUE, title |-> "dataset_id"]

CatalogTitle == [present |-> TRUE, title |-> "title"]

\* one round of "for dataset_id in dataset_ids: try: ... except Exception":
\* what dataset_metadata holds for the id afterwards
TitleLookup(answer) ==
    IF answer.net # "ok" THEN IdAsTitle                \* requests.get raises
    ELSE IF answer.status # 200 THEN NoEntry           \* nothing is stored
    ELSE IF ~answer.json THEN IdAsTitle                \* pkg_response.json() raises
    ELSE IF ~answer.success THEN NoEntry               \* nothing is stored
    ELSE IF answer.title THEN CatalogTitle
    ELSE IdAsTitle                                     \* .get('title', dataset_id)

\* dataset_metadata after the loop over dataset_ids
TitleLoop(dataset_ids, answers) ==
    [d \in Datasets |-> IF d \in Range(dataset_ids) THEN TitleLookup(answers[d]) ELSE NoEntry]

\* the requests of the model
Queries == {<<>>, <<"a">>}

\* the title loop of the server model finds every title
ServerTitles == {a \in TitleAnswers : TitleLookup(a) = CatalogTitle}

LocationAt(lat) == [given |-> TRUE, lat |-> lat, lon |-> 11]

Locations == {NoLocation, LocationAt(0), LocationAt(48)}

\* resolve_workspace_datasets(workspace): the ids of some datasets, once each,
\* in some order
ResolvedLists == UNION {Orderings(S) : S \in SUBSET Datasets}

ServerInit ==
    /\ ServerIdle
    /\ rsv = NoCall
    /\ call = NoCall
    /\ ret = NoCall

\* GET /api/workspaces/<id>/search for an unknown id
SearchNotFound(t) ==
    /\ thr[t].pc = "idle"
    /\ \A u \in Threads : u < t => thr[u].pc # "idle"   \* the first free thread takes it
    /\ started < MaxRequests
    /\ started' = started + 1
    /\ thr' = [thr EXCEPT ![t] = [IdleThread EXCEPT !.pc = "done",
                                      !.resp = [NoResponse EXCEPT !.status = 404]]]
    /\ UNCHANGED <<heap, cache, rsv, call, ret, workspaces>>

\* search_workspace up to the loop that loads the datasets: the arguments are
\* read, the workspace is resolved and the titles are looked up
SearchStart(t, queries, locations, titles) ==
    /\ thr[t].pc = "idle"
    /\ \A u \in Threads : u < t => thr[u].pc # "idle"   \* the first free thread takes it
    /\ started < MaxRequests
    /\ started' = started + 1
    /\ \E q \in queries, loc \in locations, ids \in ResolvedLists,
          answers \in [Datasets -> titles] :
          thr' = [thr EXCEPT ![t] = [IdleThread EXCEPT !.pc = "loop", !.query = q,
                                         !.loc = loc, !.dataset_ids = ids, !.i = 1,
                                         !.dataset_metadata = TitleLoop(ids, answers)]]
    /\ UNCHANGED <<heap, cache, rsv, call, ret, workspaces>>

\* fetch_ckan_dataset(dataset_id) finds the id in its cache
FetchHit(t) ==
    /\ thr[t].pc = "loop"
    /\ thr[t].i <= Len(thr[t].dataset_ids)
    /\ cache[thr[t].dataset_ids[thr[t].i]] # 0
    /\ LET after == LoopBody(thr[t], heap, cache[thr[t].dataset_ids[thr[t].i]])
       IN  /\ thr' = [thr EXCEPT ![t] = after.th]
           /\ heap' = after.heap
    /\ UNCHANGED <<cache, started, rsv, call, ret, workspaces>>

\* fetch_ckan_dataset(dataset_id) does not find the id in its cache and sends
\* the package_show request
FetchMiss(t) ==
    /\ thr[t].pc = "loop"
    /\ thr[t].i <= Len(thr[t].dataset_ids)
    /\ cache[thr[t].dataset_ids[thr[t].i]] = 0
    /\ thr' = [thr EXCEPT ![t].pc = "meta"]
    /\ UNCHANGED <<heap, cache, started, rsv, call, ret, workspaces>>

\* lru_cache stores what the call returned under its key, whatever is there,
\* and the loop body runs on it
StoreAndGoOn(t, value) ==
    LET o == Len(heap) + 1
        after == LoopBody(thr[t], Append(heap, value), o)
    IN  /\ cache' = [cache EXCEPT ![thr[t].dataset_ids[thr[t].i]] = o]
        /\ heap' = after.heap
        /\ thr' = [thr EXCEPT ![t] = [after.th EXCEPT !.pc = "loop", !.fmt = ""]]

\* the package_show answer arrives
FetchMetadata(t) ==
    /\ thr[t].pc = "meta"
    /\ \E meta \in ServerMetadata :
          IF AfterMetadata(meta).done
          THEN StoreAndGoOn(t, AfterMetadata(meta).value)
          ELSE /\ thr' = [thr EXCEPT ![t].pc = "download", ![t].fmt = AfterMetadata(meta).fmt]
               /\ UNCHANGED <<heap, cache>>
    /\ UNCHANGED <<started, rsv, call, ret, workspaces>>

\* the download's answer arrives and fetch_ckan_dataset returns
FetchDownload(t) ==
    /\ thr[t].pc = "download"
    /\ \E dl \in ServerDownloads : StoreAndGoOn(t, AfterDownload(thr[t].fmt, dl))
    /\ UNCHANGED <<started, rsv, call, ret, workspaces>>

\* after the loop: search_features, then the distances if a location is given
SearchAndAnnotate(t) ==
    /\ thr[t].pc = "loop"
    /\ thr[t].i > Len(thr[t].dataset_ids)
    /\ LET all == thr[t].all_features
           found == search_features(
                        [k \in 1..Len(all) |->
                            [properties |-> Deref(heap, all[k]).properties, ref |-> all[k]]],
                        thr[t].query)
           results == [k \in 1..Len(found.list) |-> found.list[k].ref]
           noted == AnnotateFrom(results, 1, heap, thr[t].loc)
           error == [IdleThread EXCEPT !.pc = "done", !.query = thr[t].query,
                                       !.loc = thr[t].loc, !.dataset_ids = thr[t].dataset_ids,
                                       !.dataset_metadata = thr[t].dataset_metadata,
                                       !.resp = [NoResponse EXCEPT !.status = 500]]
       IN  IF found.raised
           THEN thr' = [thr EXCEPT ![t] = error] /\ heap' = heap    \* except Exception: 500
           ELSE IF LocationIsTrue(thr[t].loc)
           THEN /\ heap' = noted.heap
                /\ thr' = [thr EXCEPT ![t] = IF noted.raised THEN error
                                             ELSE [thr[t] EXCEPT !.pc = "sort", !.results = results,
                                                                 !.all_features = <<>>]]
           ELSE /\ heap' = heap
                /\ thr' = [thr EXCEPT ![t].pc = "sort", ![t].results = results,
                                      ![t].all_features = <<>>]
    /\ UNCHANGED <<cache, started, rsv, call, ret, workspaces>>

\* the sort if a location is given, the pagination and the response, which
\* holds the features as they are when it is written
Respond(t) ==
    /\ thr[t].pc = "sort"
    /\ LET results == IF LocationIsTrue(thr[t].loc)
                      THEN SortedByDistance(thr[t].results, heap) ELSE thr[t].results
           page == Paginate(results, DefaultOffset, DefaultLimit)
       IN  thr' = [thr EXCEPT ![t].pc = "done", ![t].results = <<>>,
                       ![t].resp = [status |-> 200,
                                    results |-> [k \in 1..Len(page.results) |->
                                                    Deref(heap, page.results[k])],
                                    dataset_metadata |-> thr[t].dataset_metadata]]
    /\ UNCHANGED <<heap, cache, started, rsv, call, ret, workspaces>>

\* the response is sent and the thread is free again
Finish(t) ==
    /\ thr[t].pc = "done"
    /\ thr' = [thr EXCEPT ![t] = IdleThread]
    /\ UNCHANGED <<heap, cache, started, rsv, call, ret, workspaces>>

\* the server, its requests giving one of these queries and locations and the
\* catalog giving one of these answers to the title loop
ServerNext(queries, locations, titles) ==
    \E t \in Threads :
        \/ SearchNotFound(t)
        \/ SearchStart(t, queries, locations, titles)
        \/ FetchHit(t)
        \/ FetchMiss(t)
        \/ FetchMetadata(t)
        \/ FetchDownload(t)
        \/ SearchAndAnnotate(t)
        \/ Respond(t)
        \/ Finish(t)

Next == ServerNext(Queries, Locations, ServerTitles)

Spec == ServerInit /\ [][Next]_vars

\* the server when the title loop meets every answer of the catalog
TitlesNext == ServerNext({<<>>}, {NoLocation}, TitleAnswers)

SpecTitles == ServerInit /\ [][TitlesNext]_vars

\* the server when every request gives one of two reference locations
TwoLocationsNext == ServerNext({<<>>}, {LocationAt(48), LocationAt(51)}, ServerTitles)

SpecTwoLocations == ServerInit /\ [][TwoLocationsNext]_vars


(***************************************************************************)
(* The workspace endpoints: create, update, delete                         *)
(***************************************************************************)
MaxCreated == 2     \* the workspaces created in a behaviour

WorkspaceIds == 1..MaxCreated

\* a field of the request's JSON body: absent (or null), or its value
NameArgs ==
    {[given |-> FALSE, value |-> ""], [given |-> TRUE, value |-> ""],
     [given |-> TRUE, value |-> "n"]}

ListArgs ==
    {[given |-> FALSE, value |-> <<>>], [given |-> TRUE, value |-> <<>>],
     [given |-> TRUE, value |-> <<1>>]}

\* the bodies of the POST and PUT requests; the description and the two
\* timestamps of a row are not part of the model
Bodies ==
    [name : NameArgs, dataset_ids : ListArgs, groups : ListArgs, tags : ListArgs]

\* SELECT * FROM workspaces WHERE id = ?
HasRow(table, id) == \E w \in table.rows : w.id = id

get_workspace_by_id(table, id) == CHOOSE w \in table.rows : w.id = id

\* INSERT INTO workspaces, the id a fresh uuid4
create_workspace(table, name, dataset_ids, groups, tags) ==
    [rows |-> table.rows \cup {[id |-> table.made + 1, name |-> name,
                                dataset_ids |-> dataset_ids, groups |-> groups,
                                tags |-> tags]},
     made |-> table.made + 1]

\* the same endpoint without its test of the selectors
create_unchecked(table, body) ==
    IF ~body.name.given \/ body.name.value = ""
    THEN [status |-> 400, table |-> table]
    ELSE [status |-> 201,
          table |-> create_workspace(table, body.name.value, body.dataset_ids.value,
                                     body.groups.value, body.tags.value)]

\* POST /api/workspaces
create_new_workspace(table, body) ==
    IF ~body.name.given \/ body.name.value = ""           \* if not name
    THEN [status |-> 400, table |-> table]
    ELSE IF /\ body.dataset_ids.value = <<>>
            /\ body.groups.value = <<>>
            /\ body.tags.value = <<>>
    THEN [status |-> 400, table |-> table]
    ELSE [status |-> 201,
          table |-> create_workspace(table, body.name.value, body.dataset_ids.value,
                                     body.groups.value, body.tags.value)]

\* update_workspace for a row that exists: only the fields given are replaced
update_workspace(table, id, body) ==
    LET w == get_workspace_by_id(table, id)
        updated ==
            [id |-> id,
             name |-> IF body.name.given THEN body.name.value ELSE w.name,
             dataset_ids |-> IF body.dataset_ids.given THEN body.dataset_ids.value
                             ELSE w.dataset_ids,
             groups |-> IF body.groups.given THEN body.groups.value ELSE w.groups,
             tags |-> IF body.tags.given THEN body.tags.value ELSE w.tags]
    IN  [table EXCEPT !.rows = (@ \ {w}) \cup {updated}]

\* PUT /api/workspaces/<workspace_id>
update_existing_workspace(table, id, body) ==
    IF ~HasRow(table, id) THEN [status |-> 404, table |-> table]
    ELSE [status |-> 200, table |-> update_workspace(table, id, body)]

\* DELETE FROM workspaces WHERE id = ?
delete_workspace(table, id) == [table EXCEPT !.rows = {w \in @ : w.id # id}]

\* DELETE /api/workspaces/<workspace_id>
delete_existing_workspace(table, id) ==
    IF ~HasRow(table, id) THEN [status |-> 404, table |-> table]
    ELSE [status |-> 200, table |-> delete_workspace(table, id)]

CreateRequest ==
    \E body \in Bodies :
        LET after == create_new_workspace(workspaces, body)
        IN  /\ after.table.made <= MaxCreated
            /\ workspaces' = after.table
            /\ ret' = [fn |-> "create", id |-> 0, body |-> body, status |-> after.status]
            /\ UNCHANGED <<rsv, call, serverVars>>

UpdateRequest ==
    \E id \in WorkspaceIds, body \in Bodies :
        LET after == update_existing_workspace(workspaces, id, body)
        IN  /\ workspaces' = after.table
            /\ ret' = [fn |-> "update", id |-> id, body |-> body, status |-> after.status]
            /\ UNCHANGED <<rsv, call, serverVars>>

DeleteRequest ==
    \E id \in WorkspaceIds :
        LET after == delete_existing_workspace(workspaces, id)
        IN  /\ workspaces' = after.table
            /\ ret' = [fn |-> "delete", id |-> id, body |-> <<>>, status |-> after.status]
            /\ UNCHANGED <<rsv, call, serverVars>>

StoreNext == CreateRequest \/ UpdateRequest \/ DeleteRequest

SpecStore == ServerInit /\ [][StoreNext]_vars

(***************************************************************************)
(* detect_coordinate_columns and csv_to_geojson                            *)
(***************************************************************************)
MaxHeaders == 3     \* the columns of a CSV text
MaxRows == 2        \* its rows

lat_patterns == <<<<"l", "a", "t">>, <<"l", "a", "t", "i", "t", "u", "d", "e">>, <<"b", "r", "e", "i", "t", "e", "n", "g", "r", "a", "d">>, <<"y">>, <<"n", "o", "r", "t", "h", "i", "n", "g">>>>

lon_patterns == <<<<"l", "o", "n">>, <<"l", "n", "g">>, <<"l", "o", "n", "g", "i", "t", "u", "d", "e">>,
                  <<"l", "a", "e", "n", "g", "e", "n", "g", "r", "a", "d">>, <<"l", "ä", "n", "g", "e", "n", "g", "r", "a", "d">>,
                  <<"x">>, <<"e", "a", "s", "t", "i", "n", "g">>>>

\* h.startswith(pattern)
StartsWith(h, pattern) ==
    Len(pattern) <= Len(h) /\ SubSeq(h, 1, Len(pattern)) = pattern

\* "pattern == h or h.startswith(pattern)" in the first pass, "pattern in h"
\* in the second, for some pattern of the list
MatchesSome(h, patterns, partial) ==
    \E p \in 1..Len(patterns) :
        IF partial THEN FindFrom(patterns[p], h, 1)
        ELSE patterns[p] = h \/ StartsWith(h, patterns[p])

NoColumn == [found |-> FALSE, name |-> <<>>]

RECURSIVE DetectPass(_, _, _, _)
\* "for i, h in enumerate(headers_lower)" from header i on: an axis that has
\* no column yet takes headers[i] if it matches
DetectPass(headers, i, cols, partial) ==
    IF i > Len(headers) THEN cols
    ELSE LET h == Strip(Lower(headers[i]))
             lat_col == IF ~cols.lat.found /\ MatchesSome(h, lat_patterns, partial)
                        THEN [found |-> TRUE, name |-> headers[i]] ELSE cols.lat
             lon_col == IF ~cols.lon.found /\ MatchesSome(h, lon_patterns, partial)
                        THEN [found |-> TRUE, name |-> headers[i]] ELSE cols.lon
         IN  DetectPass(headers, i + 1, [lat |-> lat_col, lon |-> lon_col], partial)

\* the detection with the second pass looking for prefixes again
detect_prefix_only(headers) ==
    LET exact == DetectPass(headers, 1, [lat |-> NoColumn, lon |-> NoColumn], FALSE)
    IN  IF ~exact.lat.found \/ ~exact.lon.found
        THEN DetectPass(headers, 1, exact, FALSE)
        ELSE exact

detect_coordinate_columns(headers) ==
    LET exact == DetectPass(headers, 1, [lat |-> NoColumn, lon |-> NoColumn], FALSE)
    IN  IF ~exact.lat.found \/ ~exact.lon.found
        THEN DetectPass(headers, 1, exact, TRUE)
        ELSE exact

\* a cell of a row: its text, or None where the row is shorter than the header
Cell(s) == [given |-> TRUE, s |-> s]

NoCell == [given |-> FALSE, s |-> <<>>]

IsDigit(c) == c \in {"0", "1", "2", "3", "4", "5", "6", "7", "8", "9"}

\* str.replace(',', '.')
ReplaceComma(s) == [i \in 1..Len(s) |-> IF s[i] = "," THEN "." ELSE s[i]]

\* the position of the first "." of s, Len(s) + 1 if it has none
RECURSIVE FirstPeriod(_, _)
FirstPeriod(s, i) ==
    IF i > Len(s) THEN i ELSE IF s[i] = "." THEN i ELSE FirstPeriod(s, i + 1)

\* float(s) for the texts of the model (a sign, digits 1..9, periods, other
\* characters): ok is whether it returns, and then the number is
\* (-1)^neg * whole.fraction
Float(s) ==
    LET neg == s # <<>> /\ Head(s) = "-"
        body == IF s # <<>> /\ Head(s) \in {"-", "+"} THEN Tail(s) ELSE s
        dot == FirstPeriod(body, 1)
        whole == SubSeq(body, 1, dot - 1)
        fraction == SubSeq(body, dot + 1, Len(body))
    IN  IF /\ \A i \in 1..Len(whole) : IsDigit(whole[i])
           /\ \A i \in 1..Len(fraction) : IsDigit(fraction[i])
           /\ Len(whole) + Len(fraction) > 0
        THEN [ok |-> TRUE, neg |-> neg, whole |-> whole, fraction |-> fraction]
        ELSE [ok |-> FALSE, neg |-> FALSE, whole |-> <<>>, fraction |-> <<>>]   \* ValueError

\* the index of the column of this name
ColumnOf(headers, name) == CHOOSE i \in 1..Len(headers) : headers[i] = name

\* {k: v for k, v in row.items() if k not in [coords['lat'], coords['lon']]}
RECURSIVE RowProperties(_, _, _, _)
RowProperties(headers, row, i, coords) ==
    IF i > Len(headers) THEN <<>>
    ELSE IF headers[i] \in {coords.lat.name, coords.lon.name}
    THEN RowProperties(headers, row, i + 1, coords)
    ELSE <<[key |-> headers[i], val |-> row[i]]>> \o RowProperties(headers, row, i + 1, coords)

RECURSIVE ConvertRows(_, _, _, _)
\* "for row in rows" from row r on: the features appended
ConvertRows(headers, rows, r, coords) ==
    IF r > Len(rows) THEN <<>>
    ELSE LET lat_cell == rows[r][ColumnOf(headers, coords.lat.name)]
             lon_cell == rows[r][ColumnOf(headers, coords.lon.name)]
             lat_str == Strip(lat_cell.s)
             lon_str == Strip(lon_cell.s)
             lat == Float(ReplaceComma(lat_str))
             lon == Float(ReplaceComma(lon_str))
             rest == ConvertRows(headers, rows, r + 1, coords)
         IN  IF ~lat_cell.given \/ ~lon_cell.given THEN rest     \* None.strip(): AttributeError
             ELSE IF lat_str = <<>> \/ lon_str = <<>> THEN rest  \* continue
             ELSE IF ~lat.ok \/ ~lon.ok THEN rest                \* ValueError
             ELSE <<[geometry |-> [kind |-> "Point", coordinates |-> <<lon, lat>>],
                     properties |-> RowProperties(headers, rows[r], 1, coords)]>> \o rest

\* the conversion that gives up at the first row it cannot convert
RECURSIVE ConvertRowsUntilBad(_, _, _, _)
ConvertRowsUntilBad(headers, rows, r, coords) ==
    IF r > Len(rows) THEN <<>>
    ELSE LET one == ConvertRows(headers, <<rows[r]>>, 1, coords)
         IN  IF one = <<>> THEN <<>>
             ELSE one \o ConvertRowsUntilBad(headers, rows, r + 1, coords)

csv_aborting(headers, rows) ==
    LET coords == detect_coordinate_columns(headers)
    IN  IF rows = <<>> THEN <<>>
        ELSE IF ~coords.lat.found \/ ~coords.lon.found THEN <<>>
        ELSE ConvertRowsUntilBad(headers, rows, 1, coords)

\* csv_to_geojson for a text with these headers and rows: the features of the
\* collection it returns
csv_to_geojson(headers, rows) ==
    LET coords == detect_coordinate_columns(headers)
    IN  IF rows = <<>> THEN <<>>                                  \* if not rows
        ELSE IF ~coords.lat.found \/ ~coords.lon.found THEN <<>>
        ELSE ConvertRows(headers, rows, 1, coords)

\* the headers of the model
HeaderPool ==
    {<<"L", "a", "t", " ">>,
     <<"g", "e", "o", "_", "l", "a", "t">>,
     <<"L", "O", "N">>,
     <<"m", "y", "_", "l", "n", "g">>,
     <<"n", "a", "m", "e">>,
     <<"y">>,
     <<"x", "l", "a", "t">>,
     <<" ">>}

HeaderLists == {h \in SeqsUpTo(HeaderPool, MaxHeaders) : NoDuplicates(h)}

DetectInit ==
    /\ ServerIdle
    /\ rsv = NoCall
    /\ ret = NoCall
    /\ call \in {[fn |-> "detect", headers |-> h] : h \in HeaderLists}

\* the detection, and the conversion of one row whose cells are all "4"
DetectCall ==
    /\ call.fn = "detect"
    /\ ret.fn = "none"
    /\ ret' = [fn |-> "detect",
               coords |-> detect_coordinate_columns(call.headers),
               features |-> csv_to_geojson(call.headers,
                                           <<[i \in 1..Len(call.headers) |-> Cell(<<"4">>)]>>)]
    /\ UNCHANGED <<rsv, call, serverVars, workspaces>>

DetectNext == DetectCall

SpecDetect == DetectInit /\ [][DetectNext]_vars

\* the cells of the coordinate columns of the model
CellPool ==
    {NoCell} \cup
    {Cell(s) : s \in {<<" ">>, <<"4", ",", "8">>, <<" ", "4", ".", "8", " ">>,
                       <<"4", ",", "8", ",", "1">>, <<"x">>, <<"-", "4">>, <<"4", ".">>}}

CsvHeaders == <<<<"n", "a", "m", "e">>, <<"L", "o", "n">>, <<"L", "a", "t">>>>

CsvRows == {<<Cell(<<"X">>), lon, lat>> : lon \in CellPool, lat \in CellPool}

CsvInit ==
    /\ ServerIdle
    /\ rsv = NoCall
    /\ ret = NoCall
    /\ call \in {[fn |-> "csv", headers |-> CsvHeaders, rows |-> rows] :
                    rows \in SeqsUpTo(CsvRows, MaxRows)}

CsvCall ==
    /\ call.fn = "csv"
    /\ ret.fn = "none"
    /\ ret' = [fn |-> "csv", features |-> csv_to_geojson(call.headers, call.rows)]
    /\ UNCHANGED <<rsv, call, serverVars, workspaces>>

CsvNext == CsvCall

SpecCsv == CsvInit /\ [][CsvNext]_vars


-----------------------------------------------------------------------------
\* C2: the list resolve_workspace_datasets returns has no duplicate id, and its
\* elements are exactly the direct dataset ids together with the ids the
\* catalog's usable answers listed for the group and the tag references.
C2_ResolveIsUnion ==
    rsv.pc = "done" =>
        /\ NoDuplicates(rsv.result)
        /\ Range(rsv.result) = Range(rsv.workspace.dataset_ids) \cup rsv.returned

\* an id reached through a direct id, a group and a tag is returned once
C2_Witness ==
    /\ rsv.pc = "done"
    /\ Len(rsv.workspace.groups) > 0
    /\ Len(rsv.workspace.tags) > 0
    /\ ~rsv.failed
    /\ Len(rsv.workspace.dataset_ids) = 2
    /\ rsv.workspace.dataset_ids[1] = rsv.workspace.dataset_ids[2]
    /\ rsv.returned = {rsv.workspace.dataset_ids[1], 2}
    /\ Cardinality(rsv.returned) = 2
    /\ Len(rsv.result) = 2

\* C3: a failed group or tag lookup raises nothing and adds no dataset, and the
\* result keeps every direct id and every id of the usable answers.
C3_LookupFailureDegrades ==
    /\ rsv.pc # "raised"
    /\ (rsv.looked /\ rsv.lastFailed) => rsv.lastCount = 0
    /\ (rsv.pc = "done" /\ rsv.failed) =>
          (Range(rsv.workspace.dataset_ids) \cup rsv.returned) \subseteq Range(rsv.result)

\* the group lookup failed, the tag lookup listed an id, and both that id and
\* the direct id are in the result
C3_Witness ==
    /\ rsv.pc = "done"
    /\ rsv.failed
    /\ ~rsv.lastFailed
    /\ rsv.returned = {3}
    /\ rsv.workspace.dataset_ids = <<1>>
    /\ Range(rsv.result) = {1, 3}

\* C8 as stated: the sample of n features for 0 < k < n is the k features at
\* the source indices floor(i*n/k), i = 0..k-1, strictly increasing; a dataset
\* of n <= k features is taken whole.
C8_SampleAtFloorIndices ==
    (ret.fn = "sample" /\ ~ret.raised /\ call.max_per_dataset > 0) =>
        LET n == Len(call.features)
            k == call.max_per_dataset
        IN  IF k < n
            THEN /\ Len(ret.list) = k
                 /\ \A i \in 0..(k - 1) : ret.list[i + 1] = call.features[(i * n) \div k + 1]
                 /\ \A i \in 1..(k - 1) : ret.list[i] < ret.list[i + 1]
            ELSE ret.list = call.features

\* C8, amended: the index of the i-th sampled feature is int(i * (n/k)) in
\* double arithmetic: floor(i*n/k), or one less where i*n/k is an integer that
\* the rounded product falls short of; the sample has exactly k features, in
\* strictly increasing source order; a dataset of n <= k features is taken whole.
C8_SampleAtFloatIndices ==
    (ret.fn = "sample" /\ ~ret.raised /\ call.max_per_dataset > 0) =>
        LET n == Len(call.features)
            k == call.max_per_dataset
        IN  IF k < n
            THEN /\ Len(ret.list) = k
                 /\ \A i \in 0..(k - 1) :
                       \/ ret.list[i + 1] = call.features[(i * n) \div k + 1]
                       \/ /\ (i * n) % k = 0
                          /\ (i * n) \div k >= 1
                          /\ ret.list[i + 1] = call.features[(i * n) \div k]
                 /\ \A i \in 1..(k - 1) : ret.list[i] < ret.list[i + 1]
            ELSE ret.list = call.features

\* 7 features sampled down to 3: the features at the indices 0, 2 and 4
C8_Witness ==
    /\ ret.fn = "sample"
    /\ Len(call.features) = 7
    /\ call.max_per_dataset = 3
    /\ ret.list = <<1, 3, 5>>

\* the results whose index lies in [lo, hi), in order
InWindow(lst, lo, hi) ==
    SubSeq(lst, Max(lo, 0) + 1, Min(hi, Len(lst)))

\* C7 as stated: for every offset and limit, negative ones included, the page
\* is the results at the indices [offset, offset+limit), count is
\* min(limit, max(0, total - offset)), and has_more is offset + limit < total.
C7_PageForAllArguments ==
    ret.fn = "page" =>
        /\ ret.total = Len(call.results)
        /\ ret.results = InWindow(call.results, ret.offset, ret.offset + ret.limit)
        /\ ret.count = Len(ret.results)
        /\ ret.count = Min(ret.limit, Max(0, ret.total - ret.offset))
        /\ ret.has_more = (ret.offset + ret.limit < ret.total)

\* C7, amended: has_more is offset + limit < total for every offset and limit;
\* for offset >= 0 and limit >= 0 the page is the results at the indices
\* [offset, offset+limit) and count is min(limit, max(0, total - offset)),
\* limit being the requested limit capped at 2000.
C7_PageForNonNegativeArguments ==
    ret.fn = "page" =>
        /\ ret.total = Len(call.results)
        /\ ret.offset = call.offset
        /\ ret.limit = Min(call.limit, LimitCap)
        /\ ret.count = Len(ret.results)
        /\ ret.has_more = (ret.offset + ret.limit < ret.total)
        /\ (ret.offset >= 0 /\ ret.limit >= 0) =>
              /\ ret.results = InWindow(call.results, ret.offset, ret.offset + ret.limit)
              /\ ret.count = Min(ret.limit, Max(0, ret.total - ret.offset))

\* the second and third of four results, and more to come
C7_Witness ==
    /\ ret.fn = "page"
    /\ Len(call.results) = 4
    /\ call.offset = 1
    /\ call.limit = 2
    /\ ret.results = <<2, 3>>
    /\ ret.has_more

\* s is a substring of t
IsSubstring(s, t) == \E i \in 1..(Len(t) - Len(s) + 1) : SubSeq(t, i, i + Len(s) - 1) = s

\* every character of s is a space
IsBlank(s) == \A i \in 1..Len(s) : s[i] = " "

\* s without the spaces at its two ends
Trimmed(s) ==
    IF IsBlank(s) THEN <<>>
    ELSE LET first == CHOOSE i \in 1..Len(s) : s[i] # " " /\ \A j \in 1..(i - 1) : s[j] = " "
             last == CHOOSE i \in 1..Len(s) : s[i] # " " /\ \A j \in (i + 1)..Len(s) : s[j] = " "
         IN  SubSeq(s, first, last)

\* the lower-cased string forms of the non-null values of a property map,
\* joined by single spaces
ValuesText(items) ==
    LET idx == {i \in 1..Len(items) : items[i].val.kind # "null"}
        form(i) == Lower(IF items[i].val.kind = "num" THEN Digits(items[i].val.n)
                         ELSE items[i].val.s)
        F[k \in 0..Len(items)] ==
            IF k = 0 THEN <<>>
            ELSE IF k \notin idx THEN F[k - 1]
            ELSE IF \E j \in idx : j < k THEN F[k - 1] \o <<" ">> \o form(k)
            ELSE form(k)
    IN  F[Len(items)]

\* the feature matches the query
FeatureMatches(feature, query) ==
    \/ IsBlank(query)
    \/ IsSubstring(Lower(Trimmed(query)),
                   ValuesText(IF feature.properties.kind = "dict"
                              THEN feature.properties.items ELSE <<>>))

\* C9: search_features returns, in their original order, exactly the features
\* that match: all of them for an empty or blank query, else those whose
\* lower-cased, space-joined non-null property values contain the trimmed,
\* lower-cased query; the property keys are not searched.
C9_SearchReturnsMatches ==
    (ret.fn = "search_features" /\ ~ret.raised) =>
        ret.list = SelectSeq(call.features, LAMBDA f : FeatureMatches(f, ret.query))

\* the query " B" keeps the feature whose value is "Ab" and drops the one
\* whose key is "b" and whose values are 1 and null
C9_Witness ==
    /\ ret.fn = "search_features"
    /\ ~ret.raised
    /\ ret.query = <<" ", "B">>
    /\ Len(call.features) = 2
    /\ call.features[1].properties.kind = "dict"
    /\ call.features[1].properties.items =
           <<[key |-> <<"a">>, val |-> NumValue(1)], [key |-> <<"b">>, val |-> NullValue]>>
    /\ call.features[2].properties.kind = "dict"
    /\ call.features[2].properties.items = <<[key |-> <<"a">>, val |-> StrValue(<<"A", "b">>)]>>
    /\ ret.list = <<call.features[2]>>



\* C1: a search of a workspace never answers with the error response (500),
\* whatever the datasets it resolves to hold or fail with.
C1_SearchNeverFails ==
    \A t \in Threads : thr[t].resp.status # 500

\* the upstream answers of a fetch hold an error at some step: the metadata
\* request, an unsuccessful answer, no matching resource, no URL, the
\* download, the parsing of the body, a body that is no feature collection
FetchHasError(meta, dl) ==
    \/ meta.net # "ok" \/ meta.status \notin 200..299 \/ ~meta.json \/ ~meta.success
    \/ \A i \in 1..Len(meta.resources) :
          LowerFormat(meta.resources[i].format) \notin {"geojson", "json", "csv"}
    \/ AfterMetadata(meta).done
    \/ dl.net # "ok" \/ dl.status \notin 200..299
    \/ AfterMetadata(meta).fmt \in {"geojson", "json"} /\ dl.body.kind # "fc"

\* C4: fetch_ckan_dataset raises nothing, and returns an empty feature
\* collection whenever a step of the fetch fails.
C4_FetchErrorGivesEmpty ==
    ret.fn = "fetch" =>
        /\ ~ret.raised
        /\ FetchHasError(call.meta, call.dl) => ret.value = EmptyCollection

\* a collection without the keys the requests add to its features
Upstream(coll) ==
    [kind |-> coll.kind,
     features |-> [k \in 1..Len(coll.features) |->
                      [coll.features[k] EXCEPT !.dataset_id = 0, !.distance_km = NoDistance]]]

\* C5: once a fetch of a dataset id has completed, the cache holds that
\* collection for that id from then on: no step removes the entry or puts
\* another collection in its place.
C5_CacheEntryIsKept ==
    [][\A d \in Datasets :
          cache[d] # 0 =>
              /\ cache'[d] # 0
              /\ Upstream(heap'[cache'[d]]) = Upstream(heap[cache[d]])]_vars

\* the threads that have a fetch of dataset d in flight
InFlight(d) ==
    {t \in Threads : /\ thr[t].pc \in {"meta", "download"}
                     /\ thr[t].dataset_ids[thr[t].i] = d}

\* C6: at most one fetch of a dataset id is in flight at a time.
C6_SingleFlight ==
    \A d \in Datasets : Cardinality(InFlight(d)) <= 1

\* the distance of a feature from a location, Infinity if it has none
DistanceFrom(loc, f) ==
    IF /\ f.geometry.kind = "Point"
       /\ Len(f.geometry.coordinates) = 2
       /\ f.geometry.coordinates[1] # 0
       /\ f.geometry.coordinates[2] # 0
    THEN calculate_distance(loc.lat, loc.lon, f.geometry.coordinates[2], f.geometry.coordinates[1])
    ELSE Infinity

\* C10: the results of a search that gives a reference location, a
\* coordinate 0 included, are in ascending order of their distance from it,
\* the features without a distance last.
C10_ResultsOrderedByDistance ==
    \A t \in Threads :
        (thr[t].pc = "done" /\ thr[t].resp.status = 200 /\ thr[t].loc.given) =>
            \A j, k \in 1..Len(thr[t].resp.results) :
                j < k => DistanceFrom(thr[t].loc, thr[t].resp.results[j])
                           <= DistanceFrom(thr[t].loc, thr[t].resp.results[k])

\* C11: the dataset_metadata of a successful search response has an entry for
\* every resolved dataset id.
C11_EveryDatasetHasEntry ==
    \A t \in Threads :
        (thr[t].pc = "done" /\ thr[t].resp.status = 200) =>
            \A d \in Range(thr[t].dataset_ids) : thr[t].resp.dataset_metadata[d].present

\* C12: a feature of a search response carries distance_km only if the
\* request gave a reference location and the feature is a Point, and then it
\* is the distance from that request's location.
C12_DistanceIsOfThisRequest ==
    \A t \in Threads :
        (thr[t].pc = "done" /\ thr[t].resp.status = 200) =>
            \A k \in 1..Len(thr[t].resp.results) :
                LET f == thr[t].resp.results[k]
                IN  f.distance_km # NoDistance =>
                        /\ thr[t].loc.given
                        /\ f.geometry.kind = "Point"
                        /\ f.distance_km = DistanceFrom(thr[t].loc, f)

\* the request body names a workspace and at least one selector
Creatable(body) ==
    /\ body.name.given /\ body.name.value # ""
    /\ \/ body.dataset_ids.value # <<>>
       \/ body.groups.value # <<>>
       \/ body.tags.value # <<>>

\* C13: a create request without a name or without any selector answers 400
\* and leaves the table as it is; any other create request answers 201 and
\* adds exactly one workspace, with an id no row had and the selectors given.
C13_CreateValidates ==
    [][ret'.fn = "create" =>
          IF Creatable(ret'.body)
          THEN /\ ret'.status = 201
               /\ \E w \in workspaces'.rows :
                     /\ workspaces'.rows = workspaces.rows \cup {w}
                     /\ \A v \in workspaces.rows : v.id # w.id
                     /\ w.name = ret'.body.name.value
                     /\ w.dataset_ids = ret'.body.dataset_ids.value
                     /\ w.groups = ret'.body.groups.value
                     /\ w.tags = ret'.body.tags.value
          ELSE /\ ret'.status = 400
               /\ workspaces'.rows = workspaces.rows]_vars

\* both answers of the create endpoint have been given: a request without
\* selectors was refused while the table holds a workspace created before
C13_Witness ==
    /\ ret.fn = "create"
    /\ ret.status = 400
    /\ ret.body.name.value = "n"
    /\ workspaces.rows # {}

\* a stored workspace is valid: a name and at least one selector
ValidRow(w) ==
    /\ w.name # ""
    /\ w.dataset_ids # <<>> \/ w.groups # <<>> \/ w.tags # <<>>

\* C18: every workspace of the table has a non-empty name and at least one
\* dataset id, group or tag.
C18_StoredWorkspacesAreValid ==
    \A w \in workspaces.rows : ValidRow(w)

\* the header, lower-cased and trimmed, begins with a pattern of the list
\* (which it does when it equals one)
BeginsWithPattern(header, patterns) ==
    \E p \in 1..Len(patterns) :
        \E rest \in 0..Len(header) :
            /\ Len(Trimmed(Lower(header))) = Len(patterns[p]) + rest
            /\ \A j \in 1..Len(patterns[p]) : Trimmed(Lower(header))[j] = patterns[p][j]

\* the header, lower-cased and trimmed, contains a pattern of the list
ContainsPattern(header, patterns) ==
    \E p \in 1..Len(patterns) : IsSubstring(patterns[p], Trimmed(Lower(header)))

\* the first header of the list that has the property, if any
FirstHeader(headers, Has(_)) ==
    IF \E i \in 1..Len(headers) : Has(headers[i])
    THEN [found |-> TRUE,
          name |-> headers[CHOOSE i \in 1..Len(headers) :
                              /\ Has(headers[i])
                              /\ \A j \in 1..(i - 1) : ~Has(headers[j])]]
    ELSE [found |-> FALSE, name |-> <<>>]

\* the column the claim names for an axis
ColumnByPreference(headers, patterns) ==
    LET Begins(h) == BeginsWithPattern(h, patterns)
        Contains(h) == ContainsPattern(h, patterns)
    IN  IF FirstHeader(headers, Begins).found THEN FirstHeader(headers, Begins)
        ELSE FirstHeader(headers, Contains)

\* C15: for each axis detect_coordinate_columns gives the first header that
\* equals or begins with a pattern of the axis (lower-cased, trimmed); if
\* there is none, the first header that contains one; if there is none, no
\* column, and then csv_to_geojson returns no feature.
C15_DetectPrefersPrefix ==
    ret.fn = "detect" =>
        /\ ret.coords.lat = ColumnByPreference(call.headers, lat_patterns)
        /\ ret.coords.lon = ColumnByPreference(call.headers, lon_patterns)
        /\ (~ret.coords.lat.found \/ ~ret.coords.lon.found) => ret.features = <<>>

\* the latitude is taken from the header that begins with a pattern although
\* an earlier header contains one, and the longitude from a header that only
\* contains a pattern
C15_Witness ==
    /\ ret.fn = "detect"
    /\ call.headers = <<<<"g", "e", "o", "_", "l", "a", "t">>, <<"L", "a", "t", " ">>,
                        <<"m", "y", "_", "l", "n", "g">>>>
    /\ ret.coords.lat.name = <<"L", "a", "t", " ">>
    /\ ret.coords.lon.name = <<"m", "y", "_", "l", "n", "g">>
    /\ ret.features # <<>>

\* the text is a decimal number once trimmed and its commas made periods: an
\* optional sign, then digits with at most one period among them
IsDecimal(cell) ==
    /\ cell.given
    /\ LET t == Trimmed(cell.s)
           u == IF t # <<>> /\ t[1] \in {"-", "+"} THEN SubSeq(t, 2, Len(t)) ELSE t
       IN  /\ \A i \in 1..Len(u) : u[i] \in {",", "."} \/ IsDigit(u[i])
           /\ \E i \in 1..Len(u) : IsDigit(u[i])
           /\ Cardinality({i \in 1..Len(u) : u[i] \in {",", "."}}) <= 1

\* the Point feature of a row of the model's CSV text (name, Lon, Lat)
FeatureOfRow(row) ==
    [geometry |-> [kind |-> "Point",
                   coordinates |-> <<Float(ReplaceComma(Trimmed(row[2].s))),
                                     Float(ReplaceComma(Trimmed(row[3].s)))>>],
     properties |-> <<[key |-> CsvHeaders[1], val |-> row[1]]>>]

RECURSIVE FeaturesOfRows(_)
FeaturesOfRows(rows) ==
    IF rows = <<>> THEN <<>>
    ELSE IF IsDecimal(Head(rows)[2]) /\ IsDecimal(Head(rows)[3])
    THEN <<FeatureOfRow(Head(rows))>> \o FeaturesOfRows(Tail(rows))
    ELSE FeaturesOfRows(Tail(rows))

Tier(format) ==
    CASE format \in {"GeoJSON", "GEOJSON", "geojson"} -> 1
      [] format \in {"JSON", "json"} -> 2
      [] format \in {"CSV", "csv"} -> 3
      [] OTHER -> 0

\* the resource the tier order names: of the highest tier present, the first
\* in list order; 0 if no resource has a tier
ResourceByTier(resources) ==
    IF \A i \in 1..Len(resources) : Tier(resources[i].format) = 0 THEN 0
    ELSE CHOOSE i \in 1..Len(resources) :
            /\ Tier(resources[i].format) # 0
            /\ \A j \in 1..Len(resources) :
                  Tier(resources[j].format) # 0 =>
                      \/ Tier(resources[i].format) < Tier(resources[j].format)
                      \/ Tier(resources[i].format) = Tier(resources[j].format) /\ i <= j

\* C16: when the package metadata is usable, fetch_ckan_dataset selects the
\* first GeoJSON resource if there is one, else the first JSON one, else the
\* first CSV one; it downloads exactly when that resource exists and has a
\* URL, and returns the empty collection otherwise.
C16_ResourceByTier ==
    (/\ ret.fn = "fetch"
     /\ call.meta.net = "ok" /\ call.meta.status = 200
     /\ call.meta.json /\ call.meta.success) =>
        LET r == ResourceByTier(call.meta.resources)
        IN  /\ ret.resource = r
            /\ ret.downloaded <=> (r # 0 /\ call.meta.resources[r].url)
            /\ ~ret.downloaded => ret.value = EmptyCollection

\* a GeoJSON resource in the last place is selected before a CSV and a JSON
\* resource, and downloaded
C16_Witness ==
    /\ ret.fn = "fetch"
    /\ call.meta.resources = <<[format |-> "CSV", url |-> TRUE],
                               [format |-> "json", url |-> TRUE],
                               [format |-> "GEOJSON", url |-> TRUE]>>
    /\ ret.resource = 3
    /\ ret.downloaded

\* C17: no step changes a collection that fetch_ckan_dataset has returned,
\* and every distance_km of a response is the distance from the reference
\* location of its own request.
C17_CachedCollectionsAreReadOnly ==
    /\ [][\A o \in 1..Len(heap) : heap'[o] = heap[o]]_vars
    /\ [](\A t \in Threads :
            (thr[t].pc = "done" /\ thr[t].resp.status = 200) =>
                \A k \in 1..Len(thr[t].resp.results) :
                    thr[t].resp.results[k].distance_km \in
                        {NoDistance, DistanceFrom(thr[t].loc, thr[t].resp.results[k])})

=============================================================================
